---- MODULE Spec2Model ----
(***************************************************************************)
(* Model of the bitboard chess rules core: src/utils.rs (bit primitives),  *)
(* src/moves.rs (geometry tables), src/board.rs (move generation, attack   *)
(* and pin detection, move application) and src/game.rs (selection state   *)
(* machine).                                                               *)
(*                                                                         *)
(* A u64 bitboard is modelled as the set of its set bit indices, a subset  *)
(* of 0..63; a shift maps every index and drops the indices that leave     *)
(* 0..63, exactly as the 64-bit shift drops the bits.  Square index =      *)
(* file + 8 * rank.                                                        *)
(***************************************************************************)
EXTENDS Integers, FiniteSets, Sequences, TLC

\* ------------------------------------------------------------------------
\* src/utils.rs
\* ------------------------------------------------------------------------

FILL == 0..63

flatten(x, y) == x + 8 * y

bit(b) == {b}

flatten_bit(x, y) == bit(flatten(x, y))

unflatten(i) == <<i % 8, i \div 8>>

trailing_zeros(m) == IF m = {} THEN 64 ELSE CHOOSE i \in m : \A j \in m : i <= j

leading_zeros(m) == IF m = {} THEN 64 ELSE 63 - (CHOOSE i \in m : \A j \in m : j <= i)

count_ones(m) == Cardinality(m)

\* x << s and x >> s on u64 with s < 64
shl(x, s) == {i + s : i \in {j \in x : j + s <= 63}}

shr(x, s) == {i - s : i \in {j \in x : j >= s}}

shr_unchecked(x, s) == IF s >= 64 THEN {} ELSE shr(x, s)

\* a shift whose amount wraps at 64
shl_wrapping(x, s) == shl(x, s % 64)

shl_unchecked(x, s) == IF s >= 64 THEN {} ELSE shl(x, s)

unflatten_bit(m) == unflatten(trailing_zeros(m))

fill_left_incl(m) == shl_unchecked(FILL, trailing_zeros(m))

fill_left_excl(m) == shl_unchecked(FILL, trailing_zeros(m) + 1)

fill_right_incl(m) == shr_unchecked(FILL, leading_zeros(m))

fill_right_excl(m) == shr_unchecked(FILL, leading_zeros(m) + 1)

fill_between_incl(b1, b2) ==
    (fill_left_incl(b1) \cap fill_right_incl(b2)) \cup
    (fill_left_incl(b2) \cap fill_right_incl(b1))

\* fill_between_excl with only b1 below b2 handled
fill_between_excl_one_way(b1, b2) == fill_left_excl(b1) \cap fill_right_excl(b2)

fill_between_excl(b1, b2) ==
    (fill_left_excl(b1) \cap fill_right_excl(b2)) \cup
    (fill_left_excl(b2) \cap fill_right_excl(b1))

\* DN = 0x8040201008040201, the a1-h8 diagonal
neg_diag_through(b) ==
    LET DN == {9 * k : k \in 0..7}
        p == unflatten_bit(b)
    IN  IF b = {} THEN {}
        ELSE IF p[1] >= p[2] THEN shr(DN, (p[1] - p[2]) * 8)
        ELSE shl(DN, (p[2] - p[1]) * 8)

\* DP = 0x0102040810204080, the h1-a8 diagonal
pos_diag_through(b) ==
    LET DP == {7 * k : k \in 1..8}
        p == unflatten_bit(b)
        z == 7 - p[1]
    IN  IF b = {} THEN {}
        ELSE IF z >= p[2] THEN shr(DP, (z - p[2]) * 8)
        ELSE shl(DP, (p[2] - z) * 8)

\* 0xff << (i & 0b111000)
byte_mask(i) == LET r == (i \div 8) % 8 IN (8 * r)..(8 * r + 7)

\* 0x0101010101010101 << (i & 0b111)
col_mask(i) == {(i % 8) + 8 * k : k \in 0..7}

diag_ray_between_incl(b1, b2) ==
    LET dn == neg_diag_through(b1)
        dp == pos_diag_through(b1)
        d  == (IF dn \cap b2 # {} THEN dn ELSE {}) \cup
              (IF dp \cap b2 # {} THEN dp ELSE {})
    IN  d \cap fill_between_incl(b1, b2)

ortho_ray_between_incl(b1, b2) ==
    LET h == byte_mask(trailing_zeros(b1))
        v == col_mask(trailing_zeros(b1))
        o == (IF h \cap b2 # {} THEN h ELSE {}) \cup
             (IF v \cap b2 # {} THEN v ELSE {})
    IN  o \cap fill_between_incl(b1, b2)

diag_ray_between_excl(b1, b2) ==
    LET dn == neg_diag_through(b1)
        dp == pos_diag_through(b1)
        d  == (IF dn \cap b2 # {} THEN dn ELSE {}) \cup
              (IF dp \cap b2 # {} THEN dp ELSE {})
    IN  d \cap fill_between_excl(b1, b2)

ortho_ray_between_excl(b1, b2) ==
    LET h == byte_mask(trailing_zeros(b1))
        v == col_mask(trailing_zeros(b1))
        o == (IF h \cap b2 # {} THEN h ELSE {}) \cup
             (IF v \cap b2 # {} THEN v ELSE {})
    IN  o \cap fill_between_excl(b1, b2)

\* BitIterator stopping after the first bit
bit_iterator_lowest_only(value) ==
    IF value = {} THEN <<>> ELSE <<{trailing_zeros(value)}>>

\* BitIterator: the one-bit masks of value, lowest bit first
RECURSIVE bit_iterator(_)
bit_iterator(value) ==
    IF value = {} THEN <<>>
    ELSE LET offset == trailing_zeros(value)
         IN  <<{offset}>> \o bit_iterator(value \ {offset})

\* ------------------------------------------------------------------------
\* src/moves.rs
\* ------------------------------------------------------------------------

KING_KERNEL ==
    { <<-1, -1>>, <<0, -1>>, <<1, -1>>,
      <<-1,  0>>,            <<1,  0>>,
      <<-1,  1>>, <<0,  1>>, <<1,  1>> }

KNIGHT_KERNEL ==
    { <<-1, -2>>, <<1, -2>>, <<-2, -1>>, <<2, -1>>,
      <<-2,  1>>, <<2,  1>>, <<-1,  2>>, <<1,  2>> }

PAWN_MOVE_KERNEL == { <<0, -1>>, <<0, 1>> }

PAWN_ATTACK_KERNEL == { <<-1, -1>>, <<1, -1>>, <<-1, 1>>, <<1, 1>> }

is_valid(p) == p[1] >= 0 /\ p[1] < 8 /\ p[2] >= 0 /\ p[2] < 8

offset(o, p) == <<o[1] + p[1], o[2] + p[2]>>

\* a table row built without restrict: offsets beyond the edge wrap or leave 0..63
kernel_mask_unchecked(kernel, i) ==
    LET o == unflatten(i)
    IN  { flatten(offset(o, p)[1], offset(o, p)[2]) : p \in kernel }

\* one table row of the first loop of Moves::init: the kernel applied at square i
kernel_mask(kernel, i) ==
    LET o == unflatten(i)
    IN  { flatten(offset(o, p)[1], offset(o, p)[2]) :
            p \in { q \in kernel : is_valid(offset(o, q)) } }

MOVES ==
    [ king_moves   |-> [i \in 0..63 |-> kernel_mask(KING_KERNEL, i)],
      knight_moves |-> [i \in 0..63 |-> kernel_mask(KNIGHT_KERNEL, i)],
      pawn_moves   |-> [i \in 0..63 |-> kernel_mask(PAWN_MOVE_KERNEL, i)],
      pawn_attacks |-> [i \in 0..63 |-> kernel_mask(PAWN_ATTACK_KERNEL, i)],
      \* 0x0101010101010100 << i
      north        |-> [i \in 0..63 |-> shl({8 * k : k \in 1..7}, i)],
      \* 0x0080808080808080 >> (63 - i)
      south        |-> [i \in 0..63 |-> shr({8 * k + 7 : k \in 0..6}, 63 - i)],
      \* (0xfe << i) & byte_mask(i)
      west         |-> [i \in 0..63 |-> shl(1..7, i) \cap byte_mask(i)],
      \* (0x7f00000000000000 >> (63 - i)) & byte_mask(i)
      east         |-> [i \in 0..63 |-> shr(56..62, 63 - i) \cap byte_mask(i)],
      north_west   |-> [i \in 0..63 |-> neg_diag_through({i}) \cap fill_left_excl({i})],
      south_east   |-> [i \in 0..63 |-> neg_diag_through({i}) \cap fill_right_excl({i})],
      north_east   |-> [i \in 0..63 |-> pos_diag_through({i}) \cap fill_left_excl({i})],
      south_west   |-> [i \in 0..63 |-> pos_diag_through({i}) \cap fill_right_excl({i})],
      diag_pos     |-> [i \in 0..63 |-> pos_diag_through({i})],
      diag_neg     |-> [i \in 0..63 |-> neg_diag_through({i})] ]


\* a table lookup; an index of 64 (trailing_zeros of an empty bitboard) is out of
\* bounds in the source and panics: the callers' *_panics predicates say when,
\* and the value returned here for it is never used
lookup(table, i) == IF i \in 0..63 THEN table[i] ELSE {}

\* ------------------------------------------------------------------------
\* src/board.rs
\* ------------------------------------------------------------------------

PIECE_COUNT == 16

KING == 0

KNIGHT == <<1, 2>>

ROOK == <<3, 4>>

QUEEN == 5

BISHOP == <<6, 7>>

PAWN == <<8, 9, 10, 11, 12, 13, 14, 15>>

into_piece(id) ==
    CASE id = 0       -> "King"
      [] id \in {1, 2} -> "Knight"
      [] id \in {3, 4} -> "Rook"
      [] id = 5       -> "Queen"
      [] id \in {6, 7} -> "Bishop"
      [] OTHER        -> "Pawn"

Slots == 0..(PIECE_COUNT - 1)

\* Team::default
DefaultTeam ==
    [ positions      |-> [i \in Slots |-> {}],
      promotions     |-> [i \in Slots |-> "None"],
      promotion_id   |-> -1,
      en_passant_pos |-> {},
      did_castling   |-> FALSE,
      did_move       |-> {},
      king_moved     |-> FALSE ]

\* Team::mask
mask(team) == UNION { team.positions[i] : i \in Slots }

\* the standard placement of one side on back rank y0 with pawns on rank y1
StartPositions(y0, y1) ==
    [i \in Slots |->
        CASE i = ROOK[1]   -> flatten_bit(0, y0)
          [] i = KNIGHT[1] -> flatten_bit(1, y0)
          [] i = BISHOP[1] -> flatten_bit(2, y0)
          [] i = QUEEN     -> flatten_bit(3, y0)
          [] i = KING      -> flatten_bit(4, y0)
          [] i = BISHOP[2] -> flatten_bit(5, y0)
          [] i = KNIGHT[2] -> flatten_bit(6, y0)
          [] i = ROOK[2]   -> flatten_bit(7, y0)
          [] OTHER         -> flatten_bit(i - PAWN[1], y1)]

\* Board::new
NewBoard ==
    [ white  |-> [DefaultTeam EXCEPT !.positions = StartPositions(0, 1)],
      black  |-> [DefaultTeam EXCEPT !.positions = StartPositions(7, 6)],
      player |-> "White" ]

Other(player) == IF player = "White" THEN "Black" ELSE "White"

\* the (curr_team, opp_team) match on self.player
CurrTeam(b) == IF b.player = "White" THEN b.white ELSE b.black

OppTeam(b) == IF b.player = "White" THEN b.black ELSE b.white

\* Board::has_promotion
has_promotion(b) == CurrTeam(b).promotion_id >= 0

\* a clip that stops before the first enemy piece as before an own one
clip_left_no_capture(ray, curr, opp) ==
    ray \ (fill_left_incl(ray \cap curr) \cup fill_left_incl(ray \cap opp))

\* one ray of ortho_unrestr / diag_unrestr clipped toward the high bits
\* (north, west, north_east, north_west). cint and oint are disjoint, so
\* cint + oint > 0 is: one of them is nonzero
clip_left(ray, curr, opp) ==
    LET cint == ray \cap curr
        oint == ray \cap opp
    IN  IF cint # {} \/ oint # {}
        THEN ray \ (fill_left_incl(cint) \cup fill_left_excl(oint))
        ELSE ray

\* one ray clipped toward the low bits (south, east, south_west, south_east)
clip_right(ray, curr, opp) ==
    LET cint == ray \cap curr
        oint == ray \cap opp
    IN  IF cint # {} \/ oint # {}
        THEN ray \ (fill_right_incl(cint) \cup fill_right_excl(oint))
        ELSE ray

ortho_unrestr(pos, curr, opp) ==
    LET i == trailing_zeros(pos)
    IN  clip_left(lookup(MOVES.north, i), curr, opp) \cup
        clip_left(lookup(MOVES.west, i), curr, opp) \cup
        clip_right(lookup(MOVES.south, i), curr, opp) \cup
        clip_right(lookup(MOVES.east, i), curr, opp)

diag_unrestr(pos, curr, opp) ==
    LET i == trailing_zeros(pos)
    IN  clip_left(lookup(MOVES.north_east, i), curr, opp) \cup
        clip_left(lookup(MOVES.north_west, i), curr, opp) \cup
        clip_right(lookup(MOVES.south_west, i), curr, opp) \cup
        clip_right(lookup(MOVES.south_east, i), curr, opp)

\* a pawn generator without the two-square advance
pawn_unrestr_single_step(pos, curr, opp, player, opp_en_passant) ==
    LET i   == trailing_zeros(pos)
        msk == IF player = "White" THEN fill_left_excl(pos) ELSE fill_right_excl(pos)
    IN  (((lookup(MOVES.pawn_moves, i) \cap msk) \ curr) \ opp)
        \cup (lookup(MOVES.pawn_attacks, i) \cap msk \cap opp)

\* a pawn generator whose two-square advance looks at the far square only
pawn_unrestr_jumping(pos, curr, opp, player, opp_en_passant) ==
    LET i      == trailing_zeros(pos)
        msk    == IF player = "White" THEN fill_left_excl(pos) ELSE fill_right_excl(pos)
        single == ((lookup(MOVES.pawn_moves, i) \cap msk) \ curr) \ opp
        double == IF player = "White" THEN shl(pos, 16) ELSE shr(pos, 16)
        first  == IF player = "White" THEN i \div 8 = 1 ELSE i \div 8 = 6
        fwd    == IF first THEN single \cup ((double \ curr) \ opp) ELSE single
        att    == lookup(MOVES.pawn_attacks, i) \cap msk
        ep     == IF player = "White"
                  THEN shl(shr(att, 8) \cap opp_en_passant, 8)
                  ELSE shr(shl(att, 8) \cap opp_en_passant, 8)
    IN  fwd \cup (att \cap opp) \cup (ep \ curr)

pawn_unrestr(pos, curr, opp, player, opp_en_passant) ==
    LET i      == trailing_zeros(pos)
        msk    == IF player = "White" THEN fill_left_excl(pos) ELSE fill_right_excl(pos)
        single == ((lookup(MOVES.pawn_moves, i) \cap msk) \ curr) \ opp
        double == IF player = "White" THEN shl(pos, 16) ELSE shr(pos, 16)
        first  == IF player = "White" THEN i \div 8 = 1 ELSE i \div 8 = 6
        fwd    == IF single # {} /\ first
                  THEN single \cup ((double \ curr) \ opp)
                  ELSE single
        att    == lookup(MOVES.pawn_attacks, i) \cap msk
        ep     == IF player = "White"
                  THEN shl(shr(att, 8) \cap opp_en_passant, 8)
                  ELSE shr(shl(att, 8) \cap opp_en_passant, 8)
    IN  fwd \cup (att \cap opp) \cup (ep \ curr)

knight_unrestr(pos, curr, opp) ==
    lookup(MOVES.knight_moves, trailing_zeros(pos)) \ curr

king_unrestr(pos, curr, opp) ==
    lookup(MOVES.king_moves, trailing_zeros(pos)) \ curr

ortho_can_reach(pos, target, blk) ==
    IF pos = {} THEN FALSE
    ELSE LET ray == ortho_ray_between_incl(pos, target)
         IN  ~(ray = {} \/ blk \cap ((ray \ pos) \ target) # {})

diag_can_reach(pos, target, blk) ==
    IF pos = {} THEN FALSE
    ELSE LET ray == diag_ray_between_incl(pos, target)
         IN  ~(ray = {} \/ blk \cap ((ray \ pos) \ target) # {})

restrict(mov, pins) == mov \cap pins

PawnSlots == PAWN[1]..PAWN[8]

\* the blocker mask is_attacked hands to ortho_can_reach / diag_can_reach
attack_blockers(pos, curr, opp) == (curr \ pos) \cup opp

is_attacked(pos, curr, opp, opp_pos, opp_prom, player) ==
    LET id      == trailing_zeros(pos)
        pwn_att == lookup(MOVES.pawn_attacks, id) \cap
                   (IF player = "White" THEN fill_left_excl(pos) ELSE fill_right_excl(pos))
        blk     == attack_blockers(pos, curr, opp)
        \* a reaching line piece standing on pos itself is skipped ("we can capture it")
        ortho_hit(p) == ortho_can_reach(p, pos, blk) /\ p # pos
        diag_hit(p)  == diag_can_reach(p, pos, blk) /\ p # pos
        \* the promoted-pawn loop: `continue` after a reach from pos itself also
        \* skips the diagonal test of that pawn
        prom_hit(i) ==
            LET piece == opp_prom[i]
                p     == opp_pos[i]
                o     == piece \in {"Rook", "Queen"} /\ ortho_can_reach(p, pos, blk)
            IN  IF piece = "None" THEN FALSE
                ELSE IF o THEN p # pos
                ELSE piece \in {"Bishop", "Queen"} /\ diag_hit(p)
    IN  \/ \E i \in PawnSlots : opp_prom[i] = "None" /\ opp_pos[i] \cap pwn_att # {}
        \/ lookup(MOVES.knight_moves, id) \cap
             (opp_pos[KNIGHT[1]] \cup opp_pos[KNIGHT[2]]) # {}
        \/ \E i \in PawnSlots :
              /\ opp_prom[i] = "Knight"
              /\ lookup(MOVES.knight_moves, trailing_zeros(opp_pos[i])) \cap pos # {}
        \/ \E s \in ROOK[1]..QUEEN : ortho_hit(opp_pos[s])
        \/ \E s \in QUEEN..BISHOP[2] : diag_hit(opp_pos[s])
        \/ \E i \in PawnSlots : prom_hit(i)

\* is_attacked indexes knight_moves with trailing_zeros of a promoted knight's
\* bitboard: 64, out of bounds, when that piece has been captured. The panic is
\* reached unless an earlier test has already returned true
is_attacked_panics(pos, curr, opp, opp_pos, opp_prom, player) ==
    LET id      == trailing_zeros(pos)
        pwn_att == lookup(MOVES.pawn_attacks, id) \cap
                   (IF player = "White" THEN fill_left_excl(pos) ELSE fill_right_excl(pos))
    IN  \/ id = 64
        \/ /\ ~\E i \in PawnSlots : opp_prom[i] = "None" /\ opp_pos[i] \cap pwn_att # {}
           /\ lookup(MOVES.knight_moves, id) \cap
                (opp_pos[KNIGHT[1]] \cup opp_pos[KNIGHT[2]]) = {}
           /\ \E i \in PawnSlots :
                 /\ opp_prom[i] = "Knight" /\ opp_pos[i] = {}
                 /\ \A j \in PawnSlots : (j < i /\ opp_prom[j] = "Knight") =>
                       lookup(MOVES.knight_moves, trailing_zeros(opp_pos[j])) \cap pos = {}

restrict_king(moves, curr, opp, opp_pos, opp_prom, player) ==
    { m \in moves : ~is_attacked({m}, curr, opp, opp_pos, opp_prom, player) }


\* BitIterator over a set of rooks, in any order: the castling loop only ORs
castling_moves(kpos, curr_team, opp_team, player) ==
    IF curr_team.king_moved THEN {}
    ELSE
    LET rooks == ((curr_team.positions[ROOK[1]] \cup curr_team.positions[ROOK[2]])
                    \cap byte_mask(trailing_zeros(kpos))) \ curr_team.did_move
        move_mask == shl(kpos, 2) \cup shr(kpos, 2)
        occupied  == mask(curr_team) \cup mask(opp_team)
        for_rook(r) ==
            LET between == ortho_ray_between_excl({r}, kpos)
                mov     == move_mask \cap between
            IN  IF between \cap occupied # {} THEN {}
                ELSE IF \E sq \in ortho_ray_between_excl(kpos, mov) :
                          ~is_attacked({sq}, mask(curr_team), mask(opp_team),
                                       opp_team.positions, opp_team.promotions, player)
                     THEN mov
                     ELSE {}
    IN  UNION { for_rook(r) : r \in rooks }

\* the restriction one opponent line piece at o puts on the piece at pos:
\* the body of the rook/queen loop of comp_pins (FILL: no restriction)
ortho_pin(king_pos, o, pos, curr, opp) ==
    LET ray == ortho_ray_between_excl(king_pos, o)
        blockers == count_ones(ray \cap (curr \cup opp))
    IN  IF ray = {}
        THEN (IF ortho_ray_between_incl(king_pos, o) # {} THEN o ELSE FILL)
        ELSE IF blockers = 0 \/ (blockers = 1 /\ ray \cap pos # {})
             THEN ray \cup o
             ELSE FILL

\* the body of the queen/bishop loop of comp_pins
diag_pin(king_pos, d, pos, curr, opp) ==
    LET ray == diag_ray_between_excl(king_pos, d)
        blockers == count_ones(ray \cap (curr \cup opp))
    IN  IF ray = {}
        THEN (IF diag_ray_between_incl(king_pos, d) # {} THEN d ELSE FILL)
        ELSE IF blockers = 0 \/ (blockers = 1 /\ ray \cap pos # {})
             THEN ray \cup d
             ELSE FILL

\* the body of the promoted-pawn loop of comp_pins; when the orthogonal ray of
\* a promoted rook or queen is empty the `continue` leaves the loop body, so
\* the diagonal test below it is not run for that pawn
promoted_pin(prom, king_pos, p, pos, curr, opp, kn_mov) ==
    IF prom = "Knight"
    THEN (IF kn_mov \cap p # {} THEN p ELSE FILL)
    ELSE
    LET oray == ortho_ray_between_excl(king_pos, p)
        dray == diag_ray_between_excl(king_pos, p)
        oblk == count_ones(oray \cap (curr \cup opp))
        dblk == count_ones(dray \cap (curr \cup opp))
        dpart == IF prom \in {"Bishop", "Queen"}
                 THEN (IF dray = {}
                       THEN (IF diag_ray_between_incl(king_pos, p) # {} THEN p ELSE FILL)
                       ELSE IF dblk = 0 \/ (dblk = 1 /\ dray \cap pos # {})
                            THEN dray \cup p
                            ELSE FILL)
                 ELSE FILL
    IN  IF prom \in {"Rook", "Queen"}
        THEN (IF oray = {}
              THEN (IF ortho_ray_between_incl(king_pos, p) # {} THEN p ELSE FILL)
              ELSE (IF oblk = 0 \/ (oblk = 1 /\ oray \cap pos # {})
                    THEN oray \cup p
                    ELSE FILL) \cap dpart)
        ELSE dpart

\* intersection of a finite set of bitboards, starting from !0
Meet(masks) == { sq \in FILL : \A m \in masks : sq \in m }

comp_pins(pos, curr, opp, opp_pos, opp_prom, king_pos, player) ==
    LET king_id == trailing_zeros(king_pos)
        pwn_att == lookup(MOVES.pawn_attacks, king_id) \cap
                   (IF player = "White" THEN fill_left_excl(king_pos)
                    ELSE fill_right_excl(king_pos))
        kn_mov  == lookup(MOVES.knight_moves, king_id)
    IN  Meet(  { opp_pos[i] : i \in { j \in PawnSlots :
                    opp_prom[j] = "None" /\ pwn_att \cap opp_pos[j] # {} } }
          \cup { opp_pos[i] : i \in { j \in KNIGHT[1]..KNIGHT[2] :
                    kn_mov \cap opp_pos[j] # {} } }
          \cup { ortho_pin(king_pos, opp_pos[i], pos, curr, opp) : i \in ROOK[1]..QUEEN }
          \cup { diag_pin(king_pos, opp_pos[i], pos, curr, opp) : i \in QUEEN..BISHOP[2] }
          \cup { promoted_pin(opp_prom[i], king_pos, opp_pos[i], pos, curr, opp, kn_mov) :
                    i \in { j \in PawnSlots : opp_prom[j] # "None" } } )

\* the pseudo-legal generator get_legal_moves dispatches to
unrestr_moves(b, id) ==
    LET curr_team == CurrTeam(b)
        opp_team  == OppTeam(b)
        pos  == curr_team.positions[id]
        curr == mask(curr_team)
        opp  == mask(opp_team)
        piece == into_piece(id)
        prom == curr_team.promotions[id]
    IN  CASE piece = "Pawn" /\ prom = "Rook"   -> ortho_unrestr(pos, curr, opp)
          [] piece = "Pawn" /\ prom = "Bishop" -> diag_unrestr(pos, curr, opp)
          [] piece = "Pawn" /\ prom = "Queen"  ->
                ortho_unrestr(pos, curr, opp) \cup diag_unrestr(pos, curr, opp)
          [] piece = "Pawn" /\ prom = "None"   ->
                pawn_unrestr(pos, curr, opp, b.player, opp_team.en_passant_pos)
          [] piece = "Knight" -> knight_unrestr(pos, curr, opp)
          [] piece = "King"   -> king_unrestr(pos, curr, opp)
          [] piece = "Bishop" -> diag_unrestr(pos, curr, opp)
          [] piece = "Rook"   -> ortho_unrestr(pos, curr, opp)
          [] piece = "Queen"  ->
                diag_unrestr(pos, curr, opp) \cup ortho_unrestr(pos, curr, opp)
          [] OTHER -> {}

\* get_legal_moves panics: the promotion match has no arm for Knight (or Pawn,
\* King); the tables are indexed with 64 for an empty slot, and comp_pins
\* indexes them with the king's trailing_zeros; is_attacked may panic too
get_legal_moves_panics(b, id) ==
    LET curr_team == CurrTeam(b)
        opp_team  == OppTeam(b)
        pos  == curr_team.positions[id]
        curr == mask(curr_team)
        opp  == mask(opp_team)
    IN  \/ into_piece(id) = "Pawn" /\
             curr_team.promotions[id] \notin {"None", "Rook", "Bishop", "Queen"}
        \/ pos = {}
        \/ id # KING /\ curr_team.positions[KING] = {}
        \/ id = KING /\ \E m \in king_unrestr(pos, curr, opp) :
              is_attacked_panics({m}, curr, opp, opp_team.positions,
                                 opp_team.promotions, b.player)

get_legal_moves(b, id) ==
    LET curr_team == CurrTeam(b)
        opp_team  == OppTeam(b)
        pos   == curr_team.positions[id]
        curr  == mask(curr_team)
        opp   == mask(opp_team)
        moves == unrestr_moves(b, id)
    IN  IF id = KING
        THEN restrict_king(moves, curr, opp, opp_team.positions,
                           opp_team.promotions, b.player)
             \cup castling_moves(pos, curr_team, opp_team, b.player)
        ELSE restrict(moves, comp_pins(pos, curr, opp, opp_team.positions,
                                       opp_team.promotions,
                                       curr_team.positions[KING], b.player))

\* Board::id_from_pos: the first slot of the side to move standing on (x, y), or -1
id_from_pos(b, x, y) ==
    LET ps == CurrTeam(b).positions
        hits == { id \in Slots : ps[id] = flatten_bit(x, y) }
    IN  IF hits = {} THEN -1 ELSE CHOOSE id \in hits : \A j \in hits : id <= j

\* a mate test that asks the king alone for moves
is_checkmate_king_only(b) ==
    CurrTeam(b).positions[KING] = {} \/ get_legal_moves(b, KING) = {}

\* Board::is_checkmate
is_checkmate(b) ==
    \A id \in Slots :
        CurrTeam(b).positions[id] = {} \/ get_legal_moves(b, id) = {}


\* play_move, "check en passant attack": the square whose occupant is removed
capture_square(player, id, mov, opp_en_passant) ==
    LET capt_pos == IF player = "White" THEN shr(mov, 8) ELSE shl(mov, 8)
    IN  IF id >= PAWN[1] /\ opp_en_passant # {} /\ opp_en_passant = capt_pos
        THEN capt_pos
        ELSE mov

\* play_move, the capture scan: the first opponent slot equal to att_pos is zeroed
capture(opp_positions, att_pos) ==
    LET hits == { i \in Slots : opp_positions[i] = att_pos }
    IN  IF hits = {} THEN opp_positions
        ELSE [opp_positions EXCEPT ![CHOOSE i \in hits : \A j \in hits : i <= j] = {}]

\* play_move, "update en passant pos"
pawn_en_passant(mov, dist) == IF dist = 16 \/ dist = -16 THEN mov ELSE {}

\* play_move, "check for promotion": does this pawn move raise a pending promotion
raises_promotion(promotion, mtz) == (mtz < 8 \/ mtz >= 56) /\ promotion = "None"

\* a castling that puts the rook nowhere
castling_rook_dropped(mov, dist) == {}

\* play_move, the rook's destination of a castling move of distance dist
castling_rook_pos(mov, dist) == IF dist = -2 THEN shr(mov, 1) ELSE shl(mov, 1)

\* play_move, the castling branch: every rook slot inside cmask goes to rpos
castling_relocate(positions, pos, mov, dist) ==
    IF dist # -2 /\ dist # 2 THEN positions
    ELSE LET cmask == IF dist = -2 THEN fill_left_excl(pos) ELSE fill_right_excl(pos)
             rpos  == castling_rook_pos(mov, dist)
         IN  [i \in Slots |->
                IF i \in ROOK[1]..ROOK[2] /\ positions[i] \cap cmask # {}
                THEN rpos ELSE positions[i]]

\* a rook move that leaves no mark in did_move
rook_move_unrecorded(did_move, mov) == did_move

\* play_move, the rook arm of the castling match
rook_did_move(did_move, mov) == did_move \cup mov

\* Board::play_move(id, mov), mov a one-bit bitboard
play_move(b, id, mov) ==
    LET curr_team == CurrTeam(b)
        opp_team  == OppTeam(b)
        att_pos == capture_square(b.player, id, mov, opp_team.en_passant_pos)
        opp1 == [opp_team EXCEPT !.positions = capture(opp_team.positions, att_pos)]
        pos  == curr_team.positions[id]
        mtz  == trailing_zeros(mov)
        dist == trailing_zeros(pos) - mtz
        is_pawn == id >= PAWN[1]
        promo == is_pawn /\ raises_promotion(curr_team.promotions[id], mtz)
        piece == into_piece(id)
        c1 == IF is_pawn
              THEN [curr_team EXCEPT
                      !.en_passant_pos = pawn_en_passant(mov, dist),
                      !.promotion_id = IF promo THEN id ELSE @]
              ELSE curr_team
        c2 == CASE piece = "Rook" -> [c1 EXCEPT !.did_move = rook_did_move(@, mov)]
                [] piece = "King" ->
                     [c1 EXCEPT !.king_moved = TRUE,
                                !.did_castling = @ \/ dist = -2 \/ dist = 2,
                                !.positions = castling_relocate(@, pos, mov, dist)]
                [] OTHER -> c1
        c3 == [c2 EXCEPT !.positions[id] = mov]
        switch == ~promo
        player2 == IF switch THEN Other(b.player) ELSE b.player
    IN  IF b.player = "White"
        THEN [white |-> c3, black |-> opp1, player |-> player2]
        ELSE [white |-> opp1, black |-> c3, player |-> player2]

\* Board::select_promotion(piece); it panics with no promotion pending
select_promotion(b, piece) ==
    LET curr == CurrTeam(b)
        c2 == [curr EXCEPT !.promotions[curr.promotion_id] = piece,
                           !.promotion_id = -1]
    IN  IF b.player = "White"
        THEN [b EXCEPT !.white = c2, !.player = "Black"]
        ELSE [b EXCEPT !.black = c2, !.player = "White"]


\* ------------------------------------------------------------------------
\* The state machine: a Board driven through play_move / select_promotion
\* ------------------------------------------------------------------------

VARIABLES
    board,          \* Game.board, the Board: [white, black: Team, player]
    state,          \* Game.state
    selected_pos,   \* Game.selected_pos
    selected_id,    \* Game.selected_id
    selected_moves, \* Game.selected_moves.0
    selected_list,  \* Game.selected_moves.1
    utils,          \* the last call of a pure function (src/utils.rs, a move
                    \* table or a generator of src/board.rs): name, arguments,
                    \* value
    black_positions, \* Game.black_positions
    white_positions, \* Game.white_positions
    result,         \* what the last Game call returned
    script,         \* which opening line the caller follows (0: none)
    ply,            \* position in the caller's inputs: the moves executed and
                    \* promotions selected (Board), the moves of the line
                    \* executed and the calls made after it (Game)
    last,           \* history: the last call and the board it was made on
    moved           \* history: per side, the king / rook slots play_move has moved

game == <<state, selected_pos, selected_id, selected_moves, selected_list,
          black_positions, white_positions, result>>

vars == <<board, state, selected_pos, selected_id, selected_moves, selected_list,
          black_positions, white_positions, result, script, ply, last, moved, utils>>

\* free calls the caller makes after the opening line is exhausted
MaxFree == 1

Sq(file, rank) == flatten(file, rank)

\* a caller's input: <<slot, destination square, promotion kind>>; slot -1 is a
\* select_promotion call
Mv(id, to) == <<id, to, "None">>

Pr(kind) == <<-1, 0, kind>>

\* Opening lines (caller input sequences). Every step is played only if the
\* destination is in get_legal_moves of the slot, so each line is a legal game
\* from Board::new().
Lines == <<
    \* 1: 1.a4 Na6 2.Ra3 Nb8 3.Nf3 Na6 4.e3 Nb8 5.Be2 Na6 6.O-O
    << Mv(8, Sq(0,3)), Mv(1, Sq(0,5)), Mv(3, Sq(0,2)), Mv(1, Sq(1,7)),
       Mv(2, Sq(5,2)), Mv(1, Sq(0,5)), Mv(12, Sq(4,2)), Mv(1, Sq(1,7)),
       Mv(7, Sq(4,1)), Mv(1, Sq(0,5)), Mv(0, Sq(6,0)) >>,
    \* 2: 1.e4 e5 2.Qh5 Ke7 3.Qxe5+ Ke8 4.Qxe8
    << Mv(12, Sq(4,3)), Mv(12, Sq(4,4)), Mv(5, Sq(7,4)), Mv(0, Sq(4,6)),
       Mv(5, Sq(4,4)), Mv(0, Sq(4,7)), Mv(5, Sq(4,7)) >>,
    \* 3: 1.c3 f6 2.e4 Kf7 3.Qc2 Kg6 4.Na3 d5 5.Nb1 d4 6.Na3 dxe3
    << Mv(10, Sq(2,2)), Mv(13, Sq(5,5)), Mv(12, Sq(4,3)), Mv(0, Sq(5,6)),
       Mv(5, Sq(2,1)), Mv(0, Sq(6,5)), Mv(1, Sq(0,2)), Mv(11, Sq(3,4)),
       Mv(1, Sq(1,0)), Mv(11, Sq(3,3)), Mv(1, Sq(0,2)), Mv(11, Sq(4,2)) >>,
    \* 4: 1.e4 Na6 2.e5 d5 3.exd6 (en passant)
    << Mv(12, Sq(4,3)), Mv(1, Sq(0,5)), Mv(12, Sq(4,4)), Mv(11, Sq(3,4)),
       Mv(12, Sq(3,5)) >>,
    \* 5: 1.g4 Na6 2.g5 Nb8 3.g6 Na6 4.gxh7 Nb8 5.hxg8=Q Na6 6.Qh7 Nb8 7.Qg6
    << Mv(14, Sq(6,3)), Mv(1, Sq(0,5)), Mv(14, Sq(6,4)), Mv(1, Sq(1,7)),
       Mv(14, Sq(6,5)), Mv(1, Sq(0,5)), Mv(14, Sq(7,6)), Mv(1, Sq(1,7)),
       Mv(14, Sq(6,7)), Pr("Queen"), Mv(1, Sq(0,5)), Mv(14, Sq(7,6)),
       Mv(1, Sq(1,7)), Mv(14, Sq(6,5)) >>,
    \* 6: 1.Nf3 Na6 2.g3 Nb8 3.Bg2 Na6 4.Rg1 Nb8 5.Rh1 Na6
    << Mv(2, Sq(5,2)), Mv(1, Sq(0,5)), Mv(14, Sq(6,2)), Mv(1, Sq(1,7)),
       Mv(7, Sq(6,1)), Mv(1, Sq(0,5)), Mv(4, Sq(6,0)), Mv(1, Sq(1,7)),
       Mv(4, Sq(7,0)), Mv(1, Sq(0,5)) >>,
    \* 7: 1.Nf3 Na6 2.g3 Nb8 3.Bg2 Na6 4.Kf1 Nb8 5.Ke1 Na6
    << Mv(2, Sq(5,2)), Mv(1, Sq(0,5)), Mv(14, Sq(6,2)), Mv(1, Sq(1,7)),
       Mv(7, Sq(6,1)), Mv(1, Sq(0,5)), Mv(0, Sq(5,0)), Mv(1, Sq(1,7)),
       Mv(0, Sq(4,0)), Mv(1, Sq(0,5)) >>,
    \* 8: 1.g4 Na6 2.g5 Nb8 3.g6 Na6 4.gxh7 Nb8 5.hxg8, the promotion left open
    << Mv(14, Sq(6,3)), Mv(1, Sq(0,5)), Mv(14, Sq(6,4)), Mv(1, Sq(1,7)),
       Mv(14, Sq(6,5)), Mv(1, Sq(0,5)), Mv(14, Sq(7,6)), Mv(1, Sq(1,7)),
       Mv(14, Sq(6,7)) >>,
    \* 9: 1.f3 e5 2.g4 Qh4 mate
    << Mv(13, Sq(5,2)), Mv(12, Sq(4,4)), Mv(14, Sq(6,3)), Mv(5, Sq(7,3)) >>,
    \* 10: 1.e4 e5 2.f4 Bc5 3.Nf3 d6 4.Bc4 Nc6
    << Mv(12, Sq(4,3)), Mv(12, Sq(4,4)), Mv(13, Sq(5,3)), Mv(7, Sq(2,4)),
       Mv(2, Sq(5,2)), Mv(11, Sq(3,5)), Mv(7, Sq(2,3)), Mv(1, Sq(2,5)) >>,
    \* 11: 1.g4 Na6 2.g5 Nb8 3.g6 Na6 4.gxh7 Nb8 5.hxg8=N Na6
    << Mv(14, Sq(6,3)), Mv(1, Sq(0,5)), Mv(14, Sq(6,4)), Mv(1, Sq(1,7)),
       Mv(14, Sq(6,5)), Mv(1, Sq(0,5)), Mv(14, Sq(7,6)), Mv(1, Sq(1,7)),
       Mv(14, Sq(6,7)), Pr("Knight"), Mv(1, Sq(0,5)) >>,
    \* 12: 1.e4 d5 2.Na3 d4 3.Nc4 Na6 4.Ne3 dxe3
    << Mv(12, Sq(4,3)), Mv(11, Sq(3,4)), Mv(1, Sq(0,2)), Mv(11, Sq(3,3)),
       Mv(1, Sq(2,3)), Mv(1, Sq(0,5)), Mv(1, Sq(4,2)), Mv(11, Sq(4,2)) >>
>>

Line(n) == IF n = 0 THEN <<>> ELSE Lines[n]

PromotionKinds == {"Rook", "Knight", "Bishop", "Queen"}

\* the destinations a caller may pass for a slot: those get_legal_moves returns
\* (none for a call that panics)
LegalInputs(b) ==
    UNION { { Mv(id, to) : to \in get_legal_moves(b, id) } :
              id \in { j \in Slots : ~get_legal_moves_panics(b, j) } }

\* the inputs the caller may hand to the next call
Inputs ==
    IF ply < Len(Line(script)) THEN { Line(script)[ply + 1] }
    ELSE IF ply < Len(Line(script)) + MaxFree
         THEN LegalInputs(board) \cup { Pr(k) : k \in PromotionKinds }
         ELSE {}

NoCall == [op |-> "none", id |-> -1, mov |-> {}, kind |-> "None", at |-> <<0, 0>>,
           before |-> NewBoard]

NoUtilsCall == [fn |-> "none", a |-> {}, b |-> {}, out |-> {}]

\* TeamIterator: the live slots in slot order, each as <<kind, x, y>>
team_iter(team) ==
    LET ids  == [k \in 1..PIECE_COUNT |-> k - 1]
        live == SelectSeq(ids, LAMBDA i : team.positions[i] # {})
    IN  [k \in 1..Len(live) |->
            <<IF team.promotions[live[k]] = "None" THEN into_piece(live[k])
              ELSE team.promotions[live[k]],
              unflatten_bit(team.positions[live[k]])[1],
              unflatten_bit(team.positions[live[k]])[2]>>]

\* Game::new
Init ==
    /\ board = NewBoard
    /\ black_positions = team_iter(NewBoard.black)
    /\ white_positions = team_iter(NewBoard.white)
    /\ state = "SelectPiece"
    /\ selected_pos = <<0, 0>>
    /\ selected_id = 0
    /\ selected_moves = {}
    /\ selected_list = <<>>
    /\ result = "none"
    /\ script \in 0..Len(Lines)
    /\ ply = 0
    /\ last = NoCall
    /\ utils = NoUtilsCall
    /\ moved = [white |-> {}, black |-> {}]

\* the king / rook slots a play_move(id, _) by the side to move adds to `moved`
MovedAfter(b, id) ==
    IF id \in {KING, ROOK[1], ROOK[2]}
    THEN IF b.player = "White"
         THEN [moved EXCEPT !.white = @ \cup {id}]
         ELSE [moved EXCEPT !.black = @ \cup {id}]
    ELSE moved

\* a caller of the Board plays a destination drawn from get_legal_moves of a
\* live slot, and resolves a pending promotion before playing on
PlayMove ==
    \E in \in Inputs :
        LET id == in[1]
            mov == {in[2]} IN
        /\ id \in Slots
        /\ ~has_promotion(board)
        /\ ~get_legal_moves_panics(board, id)
        /\ in[2] \in get_legal_moves(board, id)
        /\ board' = play_move(board, id, mov)
        /\ last' = [op |-> "play", id |-> id, mov |-> mov, kind |-> "None",
                    at |-> unflatten_bit(mov), before |-> board]
        /\ moved' = MovedAfter(board, id)
        /\ ply' = ply + 1
        /\ UNCHANGED <<script, game, utils>>

SelectPromotion ==
    \E in \in Inputs :
        /\ in[1] = -1
        /\ has_promotion(board)
        /\ board' = select_promotion(board, in[3])
        /\ last' = [op |-> "promote", id |-> CurrTeam(board).promotion_id, mov |-> {},
                    kind |-> in[3], at |-> <<0, 0>>, before |-> board]
        /\ ply' = ply + 1
        /\ UNCHANGED <<script, moved, game, utils>>

Next == PlayMove \/ SelectPromotion

Spec == Init /\ [][Next]_vars

\* ------------------------------------------------------------------------
\* src/game.rs: the Board driven through Game::select_piece / select_move
\* ------------------------------------------------------------------------

\* valid_pos with the test of x left out
valid_pos_y_only(x, y) == y < 8

\* valid_pos: both coordinates are on the board
valid_pos(x, y) == x < 8 /\ y < 8

\* Game has no call for a promotion: of a line it can follow the moves before
\* the first select_promotion
GameLine(n) ==
    LET l == Line(n)
        cut == { k \in 1..Len(l) : l[k][1] = -1 }
    IN  IF cut = {} THEN l
        ELSE SubSeq(l, 1, (CHOOSE k \in cut : \A j \in cut : k <= j) - 1)

\* a coordinate pair beyond the board
OffBoard == <<8, 0>>

\* the calls a caller of the Game makes after its line
MaxCalls == 3

\* the caller has played its line and chooses its calls freely
FreeCalls == ply >= Len(GameLine(script))

\* one square of the set, as a set of coordinate pairs (empty if there is none)
OneOf(squares) ==
    IF squares = {} THEN {} ELSE { unflatten(trailing_zeros(squares)) }

\* the (x, y) the caller may pass to select_piece: after the line, every
\* square holding a piece of the side to move, one empty square, one square
\* holding an opponent's piece and one pair beyond the board; in a state in
\* which the call is refused before it reads (x, y), one square and one pair
\* beyond the board
PieceInputs ==
    IF ply < Len(GameLine(script))
    THEN { unflatten(trailing_zeros(
               CurrTeam(board).positions[GameLine(script)[ply + 1][1]])) }
    ELSE IF ply < Len(GameLine(script)) + MaxCalls
         THEN IF state = "SelectPiece"
              THEN { unflatten(sq) : sq \in mask(CurrTeam(board)) }
                   \cup OneOf(FILL \ (mask(CurrTeam(board)) \cup mask(OppTeam(board))))
                   \cup OneOf(mask(OppTeam(board)) \ mask(CurrTeam(board)))
                   \cup { OffBoard }
              ELSE { <<0, 0>>, OffBoard }
         ELSE {}

\* the (x, y) the caller may pass to select_move: after the line, every
\* selected destination, one square that is none, and one pair beyond the
\* board; in a state in which the call is refused before it reads (x, y), one
\* square and one pair beyond the board
MoveInputs ==
    IF ply < Len(GameLine(script))
    THEN { unflatten(GameLine(script)[ply + 1][2]) }
    ELSE IF ply < Len(GameLine(script)) + MaxCalls
         THEN IF state = "SelectMove"
              THEN { unflatten(sq) : sq \in selected_moves }
                   \cup OneOf(FILL \ selected_moves)
                   \cup { OffBoard }
              ELSE { <<0, 0>>, OffBoard }
         ELSE {}

\* Game::select_piece(x, y)
GameSelectPiece ==
    \E in \in PieceInputs :
        LET x == in[1]
            y == in[2]
            id == id_from_pos(board, x, y) IN
        /\ last' = [op |-> "select_piece", id |-> -1, mov |-> {}, kind |-> "None",
                    at |-> in, before |-> board]
        /\ UNCHANGED <<board, black_positions, white_positions, script, moved, utils>>
        /\ ply' = IF FreeCalls THEN ply + 1 ELSE ply
        /\ IF state # "SelectPiece"
           THEN /\ result' = "InvalidState"
                /\ UNCHANGED <<state, selected_pos, selected_id, selected_moves,
                               selected_list>>
           ELSE IF ~valid_pos(x, y)
           THEN /\ result' = "InvalidPosition"
                /\ UNCHANGED <<state, selected_pos, selected_id, selected_moves,
                               selected_list>>
           ELSE IF id = -1
           THEN /\ selected_moves' = {}
                /\ selected_list' = <<>>
                /\ result' = "Ok"
                /\ UNCHANGED <<state, selected_pos, selected_id>>
           ELSE /\ ~get_legal_moves_panics(board, id)
                /\ selected_pos' = <<x, y>>
                /\ selected_id' = id
                /\ state' = "SelectMove"
                /\ selected_moves' = get_legal_moves(board, id)
                /\ selected_list' =
                      LET bits == bit_iterator(get_legal_moves(board, id))
                      IN  [k \in 1..Len(bits) |-> unflatten_bit(bits[k])]
                /\ result' = "Ok"

\* is_checkmate panics when a get_legal_moves call it makes does
is_checkmate_panics(b) ==
    \E id \in Slots :
        /\ CurrTeam(b).positions[id] # {}
        /\ get_legal_moves_panics(b, id)
        /\ \A j \in 0..(id - 1) :
              CurrTeam(b).positions[j] = {} \/ get_legal_moves(b, j) = {}

\* the test of select_move with the selected set left out of it
is_selected_move_any(dest, moves) == moves # {}

\* select_move's test of the destination: dest & self.selected_moves.0 > 0
is_selected_move(dest, moves) == dest \cap moves # {}

\* Game::select_move(x, y)
GameSelectMove ==
    \E in \in MoveInputs :
        LET x == in[1]
            y == in[2]
            dest == flatten_bit(x, y)
            plays == is_selected_move(dest, selected_moves)
            after == IF plays THEN play_move(board, selected_id, dest) ELSE board IN
        /\ UNCHANGED <<script, selected_pos, selected_id, selected_moves,
                       selected_list, utils>>
        /\ ply' = IF FreeCalls \/ (state = "SelectMove" /\ valid_pos(x, y) /\ plays)
                  THEN ply + 1 ELSE ply
        /\ IF state # "SelectMove"
           THEN /\ result' = "InvalidState"
                /\ last' = [op |-> "select_move", id |-> -1, mov |-> {},
                            kind |-> "None", at |-> in, before |-> board]
                /\ UNCHANGED <<board, state, black_positions, white_positions,
                               moved>>
           ELSE IF ~valid_pos(x, y)
           THEN /\ result' = "InvalidPosition"
                /\ last' = [op |-> "select_move", id |-> -1, mov |-> {},
                            kind |-> "None", at |-> in, before |-> board]
                /\ UNCHANGED <<board, state, black_positions, white_positions,
                               moved>>
           ELSE /\ ~is_checkmate_panics(after)
                /\ board' = after
                /\ black_positions' = team_iter(after.black)
                /\ white_positions' = team_iter(after.white)
                /\ state' = IF is_checkmate(after) THEN "CheckMate" ELSE "SelectPiece"
                /\ result' = "Ok"
                /\ last' = [op |-> IF plays THEN "play" ELSE "select_move",
                            id |-> IF plays THEN selected_id ELSE -1,
                            mov |-> IF plays THEN dest ELSE {},
                            kind |-> "None", at |-> in, before |-> board]
                /\ moved' = IF plays THEN MovedAfter(board, selected_id) ELSE moved

\* Game::get_moves: the error, or Ok with the slice
get_moves ==
    IF state # "SelectMove" THEN <<"InvalidState">> ELSE <<"Ok", selected_list>>

\* Game::get_selected_pos: the error, or Ok with the position
get_selected_pos ==
    IF state # "SelectMove" THEN <<"InvalidState">> ELSE <<"Ok", selected_pos>>

\* Game::get_state
get_state == state

\* Game::get_current_player
get_current_player == board.player

\* Game::reset: the game is replaced by Game::new(), and the caller starts over
GameReset ==
    /\ last.op # "none"
    /\ board' = NewBoard
    /\ black_positions' = team_iter(NewBoard.black)
    /\ white_positions' = team_iter(NewBoard.white)
    /\ state' = "SelectPiece"
    /\ selected_pos' = <<0, 0>>
    /\ selected_id' = 0
    /\ selected_moves' = {}
    /\ selected_list' = <<>>
    /\ result' = "none"
    /\ ply' = 0
    /\ last' = NoCall
    /\ moved' = [white |-> {}, black |-> {}]
    /\ UNCHANGED <<script, utils>>

GameNext == GameSelectPiece \/ GameSelectMove \/ GameReset

\* the opening lines played through Game: castling (1), the king capture (2),
\* the stale en-passant square (3), the pending promotion (8), the mate (9),
\* and no line at all (0)
GameScripts == {0, 1, 2, 3, 8, 9}

InitGame == Init /\ script \in GameScripts

SpecGame == InitGame /\ [][GameNext]_vars


\* ------------------------------------------------------------------------
\* Vocabulary of the properties: chess geometry stated on coordinates,
\* independently of the bitboard code above
\* ------------------------------------------------------------------------

Abs(n) == IF n < 0 THEN -n ELSE n

Sign(n) == IF n < 0 THEN -1 ELSE IF n > 0 THEN 1 ELSE 0

FileOf(sq) == sq % 8

RankOf(sq) == sq \div 8

RefOrthoLine(a, b) == a # b /\ (FileOf(a) = FileOf(b) \/ RankOf(a) = RankOf(b))

RefDiagLine(a, b) ==
    a # b /\ Abs(FileOf(a) - FileOf(b)) = Abs(RankOf(a) - RankOf(b))

\* the squares strictly between two squares on a common line
RefBetween(a, b) ==
    LET dx == FileOf(b) - FileOf(a)
        dy == RankOf(b) - RankOf(a)
        n  == IF Abs(dx) > Abs(dy) THEN Abs(dx) ELSE Abs(dy)
    IN  { Sq(FileOf(a) + k * Sign(dx), RankOf(a) + k * Sign(dy)) : k \in 1..(n - 1) }

RefAdjacent(a, b) ==
    a # b /\ Abs(FileOf(a) - FileOf(b)) <= 1 /\ Abs(RankOf(a) - RankOf(b)) <= 1

TeamOf(b, player) == IF player = "White" THEN b.white ELSE b.black

Occupied(b) == mask(b.white) \cup mask(b.black)

LiveSlots(team) == { i \in Slots : team.positions[i] # {} }

\* the kind a slot moves as
RefKind(team, i) ==
    IF team.promotions[i] # "None" THEN team.promotions[i] ELSE into_piece(i)

SquareOf(team, i) == CHOOSE sq \in team.positions[i] : TRUE

\* the piece of kind `kind` and colour `player` on `from` attacks `target`
\* when `occ` is the set of occupied squares
RefPieceAttacks(kind, player, from, target, occ) ==
    LET dx == FileOf(target) - FileOf(from)
        dy == RankOf(target) - RankOf(from)
    IN  CASE kind = "Pawn"   -> Abs(dx) = 1 /\ dy = (IF player = "White" THEN 1 ELSE -1)
          [] kind = "Knight" -> {Abs(dx), Abs(dy)} = {1, 2}
          [] kind = "King"   -> RefAdjacent(from, target)
          [] kind = "Rook"   -> RefOrthoLine(from, target) /\ RefBetween(from, target) \cap occ = {}
          [] kind = "Bishop" -> RefDiagLine(from, target) /\ RefBetween(from, target) \cap occ = {}
          [] kind = "Queen"  -> (RefOrthoLine(from, target) \/ RefDiagLine(from, target))
                                /\ RefBetween(from, target) \cap occ = {}
          [] OTHER -> FALSE

\* some live piece of `player`, of a kind in `kinds` and not standing on
\* `target` itself, attacks `target` under occupancy `occ`
RefAttacked(b, player, kinds, target, occ) ==
    \E i \in LiveSlots(TeamOf(b, player)) :
        /\ RefKind(TeamOf(b, player), i) \in kinds
        /\ SquareOf(TeamOf(b, player), i) # target
        /\ RefPieceAttacks(RefKind(TeamOf(b, player), i), player,
                           SquareOf(TeamOf(b, player), i), target, occ)

NonKingKinds == {"Pawn", "Knight", "Rook", "Bishop", "Queen"}

\* the calls the Board accepts in this state: a slot whose get_legal_moves returns
Playable(b) ==
    { id \in Slots : ~has_promotion(b) /\ ~get_legal_moves_panics(b, id) }

\* ------------------------------------------------------------------------
\* Properties
\* ------------------------------------------------------------------------

\* C1: in every reachable state each slot bitboard of a side is zero or a
\* single bit, and no two nonzero slots of the same side hold the same square
\* (also right after a castling move has relocated a rook).
SlotsSingleAndDistinct ==
    \A t \in {board.white, board.black} :
        /\ \A i \in Slots : Cardinality(t.positions[i]) <= 1
        /\ \A i, j \in Slots :
              (i # j /\ t.positions[i] # {}) => t.positions[i] # t.positions[j]

\* C2: in every state reachable by legal moves the king slot of both sides
\* is nonzero (a king is never captured).
KingsNeverCaptured ==
    board.white.positions[KING] # {} /\ board.black.positions[KING] # {}

\* C3: for every live non-king slot of the side to move, playing any
\* destination of get_legal_moves(slot) leaves the mover's own king square
\* not attacked by an opponent pawn, knight, rook, bishop, queen or promoted pawn.
NonKingMovesKeepKingSafe ==
    \A id \in Playable(board) \ {KING} :
        \A to \in get_legal_moves(board, id) :
            LET after == play_move(board, id, {to})
                ksq   == SquareOf(TeamOf(after, board.player), KING)
            IN  ~RefAttacked(after, Other(board.player), NonKingKinds, ksq,
                             Occupied(after))

\* C4: every non-castling destination of the king's get_legal_moves is a
\* square no opponent piece (here: no pawn, knight, rook, bishop, queen, the
\* kinds is_attacked looks at) attacks when the king's current square is
\* treated as empty.
KingDestinationsNotAttacked ==
    KING \in Playable(board) =>
        LET kpos == SquareOf(CurrTeam(board), KING)
        IN  \A to \in get_legal_moves(board, KING) :
               RefAdjacent(kpos, to) =>
                  ~RefAttacked(board, Other(board.player), NonKingKinds, to,
                               Occupied(board) \ {kpos})

\* the enemy piece in slot j is a line piece on a line through the king of the
\* side to move: a rook or queen on its rank or file, a bishop or queen on one
\* of its diagonals
LinePieceOnKingLine(b, j) ==
    LET ksq == SquareOf(CurrTeam(b), KING)
        asq == SquareOf(OppTeam(b), j)
        kind == RefKind(OppTeam(b), j)
    IN  \/ kind \in {"Rook", "Queen"} /\ RefOrthoLine(ksq, asq)
        \/ kind \in {"Bishop", "Queen"} /\ RefDiagLine(ksq, asq)

\* C5: when the king of the side to move, exactly one friendly non-king piece
\* P and an enemy line piece (rook or queen on a shared rank or file, bishop
\* or queen on a shared diagonal) are colinear with nothing else between king
\* and attacker, get_legal_moves(P) is a subset of the squares strictly
\* between king and attacker plus the attacker's square.
PinnedPieceStaysOnLine ==
    \A id \in Playable(board) \ {KING} :
        \A j \in LiveSlots(OppTeam(board)) :
            LET ksq == SquareOf(CurrTeam(board), KING)
                asq == SquareOf(OppTeam(board), j)
            IN  ( /\ LinePieceOnKingLine(board, j)
                  /\ RefBetween(ksq, asq) \cap Occupied(board)
                        = CurrTeam(board).positions[id] )
                => get_legal_moves(board, id) \subseteq RefBetween(ksq, asq) \cup {asq}


\* the last call was a play_move of an unpromoted pawn over two ranks
LastWasDoubleAdvance ==
    /\ last.op = "play"
    /\ last.id >= PAWN[1]
    /\ CurrTeam(last.before).promotions[last.id] = "None"
    /\ Abs(trailing_zeros(CurrTeam(last.before).positions[last.id])
           - trailing_zeros(last.mov)) = 16

\* the en-passant captures offered to the side to move: <<square of the pawn to
\* be captured, destination>> for every diagonal destination of an unpromoted
\* pawn that holds no opponent piece
EnPassantOffers(b) ==
    UNION { { <<Sq(FileOf(to), RankOf(SquareOf(CurrTeam(b), id))), to>> :
                to \in { t \in get_legal_moves(b, id) :
                           /\ FileOf(t) # FileOf(SquareOf(CurrTeam(b), id))
                           /\ t \notin mask(OppTeam(b)) } } :
            id \in { j \in Playable(b) \cap PawnSlots :
                        CurrTeam(b).promotions[j] = "None" } }

\* C6: after side S plays a two-square pawn advance S's en_passant_pos is the
\* pawn's destination; after any other move of S it reads zero; and an
\* en-passant capture is offered only on the move right after the advance,
\* and only of the pawn that advanced.
EnPassantOnlyRightAfterAdvance ==
    last.op = "play" =>
        /\ LastWasDoubleAdvance =>
              TeamOf(board, last.before.player).en_passant_pos = last.mov
        /\ ~LastWasDoubleAdvance =>
              TeamOf(board, last.before.player).en_passant_pos = {}
        /\ \A offer \in EnPassantOffers(board) :
              LastWasDoubleAdvance /\ last.mov = {offer[1]}

\* the destinations of the king's get_legal_moves that are not one step away
CastlingOffers(b) ==
    IF KING \in Playable(b)
    THEN { to \in get_legal_moves(b, KING) :
             ~RefAdjacent(SquareOf(CurrTeam(b), KING), to) }
    ELSE {}

\* C7: once play_move has moved a side's king or one of its rooks, the
\* king's get_legal_moves never again contains the castling destination
\* toward that rook (either one if the king moved): every castling
\* destination offered lies between the king, never moved, and a rook on the
\* king's rank that was never moved.
CastlingOnlyWithUnmovedKingAndRook ==
    \A to \in CastlingOffers(board) :
        LET team == CurrTeam(board)
            was  == TeamOf(moved, board.player)
            kpos == SquareOf(team, KING)
        IN  /\ KING \notin was
            /\ \E r \in {ROOK[1], ROOK[2]} :
                  /\ r \notin was
                  /\ team.positions[r] # {}
                  /\ RankOf(SquareOf(team, r)) = RankOf(kpos)
                  /\ to \in RefBetween(kpos, SquareOf(team, r))

\* C7 witness: White to move, king on e1 and never moved, the h1 rook moved
\* and back on h1, f1 and g1 empty: castling would be geometrically possible
RookReturnedHome ==
    /\ board.player = "White"
    /\ KING \in Playable(board)
    /\ moved.white = {ROOK[2]}
    /\ board.white.positions[KING] = {Sq(4, 0)}
    /\ board.white.positions[ROOK[2]] = {Sq(7, 0)}
    /\ {Sq(5, 0), Sq(6, 0)} \cap Occupied(board) = {}
    /\ ~is_attacked({Sq(5, 0)}, mask(board.white), mask(board.black),
                    board.black.positions, board.black.promotions, "White")

LiveCount(b, player) == Cardinality(LiveSlots(TeamOf(b, player)))

\* C9: every play_move of a legal destination leaves the mover's number of
\* live slots unchanged and the opponent's unchanged or reduced by exactly one.
PlayMovePreservesCounts ==
    last.op = "play" =>
        LET S == last.before.player
        IN  /\ LiveCount(board, S) = LiveCount(last.before, S)
            /\ \/ LiveCount(board, Other(S)) = LiveCount(last.before, Other(S))
               \/ LiveCount(board, Other(S)) = LiveCount(last.before, Other(S)) - 1

\* C9 witness: a play_move that captured
CaptureHappened ==
    /\ last.op = "play"
    /\ LiveCount(board, Other(last.before.player))
         = LiveCount(last.before, Other(last.before.player)) - 1

\* the rank on which a pawn of `player` promotes
FarRank(player) == IF player = "White" THEN 7 ELSE 0

\* the last call was a play_move that brought an unpromoted pawn to the far rank
PawnReachedFarRank ==
    /\ last.op = "play"
    /\ last.id >= PAWN[1]
    /\ CurrTeam(last.before).promotions[last.id] = "None"
    /\ RankOf(trailing_zeros(last.mov)) = FarRank(last.before.player)

\* C8: after play_move moves an unpromoted pawn onto the far rank
\* has_promotion() is true and the side to move is unchanged; both stay so
\* across every call that is not select_promotion; select_promotion records
\* the kind for the slot, clears the pending promotion and flips the side to
\* move.
PromotionGatesTurn ==
    /\ PawnReachedFarRank =>
          has_promotion(board) /\ board.player = last.before.player
    /\ (has_promotion(last.before) /\ last.op \notin {"none", "promote"}) =>
          has_promotion(board) /\ board.player = last.before.player
    /\ last.op = "promote" =>
          /\ TeamOf(board, last.before.player).promotions[last.id] = last.kind
          /\ TeamOf(board, last.before.player).promotion_id = -1
          /\ board.player = Other(last.before.player)

\* ------------------------------------------------------------------------
\* Positions with two kings and one queen
\* ------------------------------------------------------------------------

\* the board with `player` to move, its king on ksq, and the other side's
\* king on asq and queen on qsq; both kings have moved
EndingBoard(player, ksq, asq, qsq) ==
    LET defender == [DefaultTeam EXCEPT !.positions[KING] = {ksq},
                                        !.king_moved = TRUE]
        attacker == [DefaultTeam EXCEPT !.positions[KING] = {asq},
                                        !.positions[QUEEN] = {qsq},
                                        !.king_moved = TRUE]
    IN  IF player = "White"
        THEN [white |-> defender, black |-> attacker, player |-> player]
        ELSE [white |-> attacker, black |-> defender, player |-> player]

\* the side to move has only its king, on its own back rank; the other side
\* has only its king and a queen; the queen gives check; every square next to
\* the checked king is covered by the queen (looking through the king's own
\* square) or by the other king, a queen next to the king being covered when
\* its own king guards it
RefBackRankMate(b) ==
    LET me == CurrTeam(b)
        op == OppTeam(b)
    IN  /\ LiveSlots(me) = {KING}
        /\ Cardinality(LiveSlots(op)) = 2
        /\ KING \in LiveSlots(op)
        /\ \A i \in LiveSlots(op) \ {KING} : RefKind(op, i) = "Queen"
        /\ LET ksq == SquareOf(me, KING)
               asq == SquareOf(op, KING)
               qsq == SquareOf(op, CHOOSE i \in LiveSlots(op) : i # KING)
           IN  /\ RankOf(ksq) = (IF b.player = "White" THEN 0 ELSE 7)
               /\ ~RefAdjacent(ksq, asq)
               /\ Cardinality({ksq, asq, qsq}) = 3
               /\ RefPieceAttacks("Queen", Other(b.player), qsq, ksq, {asq})
               /\ \A sq \in FILL :
                     RefAdjacent(ksq, sq) =>
                        \/ RefAdjacent(asq, sq)
                        \/ sq # qsq /\ RefPieceAttacks("Queen", Other(b.player),
                                                       qsq, sq, {asq})

\* every back-rank mate with two kings and a queen, either side mated
InitPos ==
    /\ board \in { bd \in { EndingBoard(pl, Sq(f, IF pl = "White" THEN 0 ELSE 7), a, q) :
                              pl \in {"White", "Black"}, f \in 0..7,
                              a \in FILL, q \in FILL } :
                   RefBackRankMate(bd) }
    /\ black_positions = team_iter(board.black)
    /\ white_positions = team_iter(board.white)
    /\ state = "SelectPiece"
    /\ selected_pos = <<0, 0>>
    /\ selected_id = 0
    /\ selected_moves = {}
    /\ selected_list = <<>>
    /\ result = "none"
    /\ script = 0
    /\ ply = 0
    /\ last = NoCall
    /\ utils = NoUtilsCall
    /\ moved = [white |-> {KING}, black |-> {KING}]

\* the mated side's caller asks for its moves and plays one it is offered
PosNext == last.op = "none" /\ PlayMove

SpecPos == InitPos /\ [][PosNext]_vars

\* C10: in a position holding only the two kings and one queen, where the
\* queen gives check on the back rank and every escape square of the checked
\* king is covered by the queen or by the attacking king, with the checked
\* side to move, is_checkmate() is true and get_legal_moves is zero for every
\* live slot of the checked side.
BackRankMateIsCheckmate ==
    RefBackRankMate(board) =>
        /\ is_checkmate(board)
        /\ \A id \in LiveSlots(CurrTeam(board)) : get_legal_moves(board, id) = {}

\* C11: in the position produced by Board::new() (standard placement, White
\* to move, no pending promotion, no en-passant square, castling bookkeeping
\* clear) get_legal_moves of the pawn on file f, rank 1 is exactly
\* {(f,2), (f,3)}, for every file f.
OpeningPawnMoves ==
    last.op = "none" =>
        /\ board.player = "White"
        /\ ~has_promotion(board)
        /\ \A t \in {board.white, board.black} :
              /\ t.en_passant_pos = {}
              /\ t.promotion_id = -1
              /\ t.did_move = {}
              /\ ~t.king_moved
              /\ ~t.did_castling
        /\ \A f \in 0..7 :
              LET id == id_from_pos(board, f, 1)
              IN  /\ id \in PawnSlots
                  /\ id \in Playable(board)
                  /\ get_legal_moves(board, id) = {Sq(f, 2), Sq(f, 3)}

\* C11 witness: the fresh board, whose b-pawn is offered b3 and b4
OpeningPawnOffered ==
    /\ last.op = "none"
    /\ board = NewBoard
    /\ {Sq(1, 2), Sq(1, 3)} \subseteq get_legal_moves(board, id_from_pos(board, 1, 1))

\* the last call was a Game::select_move that returned Ok
SelectMoveReturnedOk == last.op \in {"play", "select_move"} /\ result = "Ok"

\* C12: is_checkmate() is true exactly when get_legal_moves is zero for every
\* live slot of the side to move, and Game::select_move leaves the game in
\* State::CheckMate exactly when is_checkmate() holds on the board after the
\* call, otherwise in State::SelectPiece.
CheckMateIffNoLegalMove ==
    /\ ~is_checkmate_panics(board) =>
          (is_checkmate(board) <=>
              \A id \in LiveSlots(CurrTeam(board)) : get_legal_moves(board, id) = {})
    /\ SelectMoveReturnedOk =>
          /\ ~is_checkmate_panics(board)
          /\ state = IF is_checkmate(board) THEN "CheckMate" ELSE "SelectPiece"

\* C12 witness: a select_move played a move that left the other side without
\* any legal move, and the game is in State::CheckMate
MatePlayed ==
    /\ last.op = "play"
    /\ result = "Ok"
    /\ state = "CheckMate"
    /\ \A id \in LiveSlots(CurrTeam(board)) : get_legal_moves(board, id) = {}

\* the Game fields an error return must leave alone
GameFields ==
    <<board, state, selected_pos, selected_id, selected_moves, selected_list,
      black_positions, white_positions>>

\* the last step was a call of Game::select_piece / Game::select_move
CalledSelectPiece == last.op = "select_piece"
CalledSelectMove == last.op \in {"select_move", "play"}

NonDestinationPlaysNothing ==
    ( /\ CalledSelectMove
      /\ result = "Ok"
      /\ flatten(last.at[1], last.at[2])
            \notin get_legal_moves(last.before, selected_id) )
    => /\ board = last.before
       /\ state = "SelectPiece"

NonDestinationSelected ==
    /\ CalledSelectMove
    /\ result = "Ok"
    /\ last.at[1] < 8 /\ last.at[2] < 8
    /\ get_legal_moves(last.before, selected_id) # {}
    /\ flatten(last.at[1], last.at[2]) \notin get_legal_moves(last.before, selected_id)
    /\ state = "SelectPiece"

\* the elements of a sequence
Range(s) == { s[k] : k \in DOMAIN s }

\* C15: a select_piece call that returns Ok (state SelectPiece, coordinates
\* on the board) leaves the state SelectMove exactly when the square holds a
\* live piece of the side to move, also when that piece has no legal move,
\* and leaves it SelectPiece on an empty square or an opponent's piece; the
\* board with its side to move is unchanged either way; in state SelectMove
\* the selected slot is the one on the selected square and get_moves returns,
\* once each, exactly the squares of get_legal_moves of the selected slot.
SelectPieceSelectsOwnPiece ==
    /\ (CalledSelectPiece /\ result = "Ok") =>
          /\ state \in {"SelectPiece", "SelectMove"}
          /\ state = "SelectMove" <=>
                flatten(last.at[1], last.at[2]) \in mask(CurrTeam(last.before))
          /\ board = last.before
    /\ state = "SelectMove" =>
          /\ CurrTeam(board).positions[selected_id]
                = {flatten(selected_pos[1], selected_pos[2])}
          /\ get_moves[1] = "Ok"
          /\ Range(get_moves[2])
                = { unflatten(sq) : sq \in get_legal_moves(board, selected_id) }
          /\ Len(get_moves[2]) = Cardinality(get_legal_moves(board, selected_id))

SelectedPieceWithoutMoves ==
    /\ CalledSelectPiece
    /\ result = "Ok"
    /\ state = "SelectMove"
    /\ get_legal_moves(board, selected_id) = {}
    /\ get_moves = <<"Ok", <<>>>>

\* ------------------------------------------------------------------------
\* src/utils.rs called on its own: one fill or ray function applied to
\* arguments drawn from the masks of at most MaxBits set bits
\* ------------------------------------------------------------------------

MaxBits == 2

\* the masks with at most n set bits
RECURSIVE MasksOf(_)
MasksOf(n) ==
    IF n = 0 THEN {{}}
    ELSE LET less == MasksOf(n - 1)
         IN  less \cup { m \cup {i} : m \in less, i \in FILL }

SingleBits == { bit(i) : i \in FILL }

\* the arguments of a call: one mask for a fill, two single-bit masks for a ray
UtilsInputs ==
    { <<m, {}>> : m \in MasksOf(MaxBits) } \cup (SingleBits \X SingleBits)

InitUtils ==
    /\ board = NewBoard
    /\ black_positions = team_iter(NewBoard.black)
    /\ white_positions = team_iter(NewBoard.white)
    /\ state = "SelectPiece"
    /\ selected_pos = <<0, 0>>
    /\ selected_id = 0
    /\ selected_moves = {}
    /\ selected_list = <<>>
    /\ result = "none"
    /\ script = 0
    /\ ply = 0
    /\ last = NoCall
    /\ moved = [white |-> {}, black |-> {}]
    /\ utils \in { [fn |-> "none", a |-> in[1], b |-> in[2], out |-> {}] :
                      in \in UtilsInputs }

\* the call fn(a) of a fill function, value v
FillCall(fn, v) ==
    /\ utils.fn = "none"
    /\ utils.b = {}
    /\ utils' = [utils EXCEPT !.fn = fn, !.out = v]
    /\ UNCHANGED <<board, game, script, ply, last, moved>>

\* the call fn(a, b) of a ray function on two single-bit masks, value v
RayCall(fn, v) ==
    /\ utils.fn = "none"
    /\ utils.b # {}
    /\ utils' = [utils EXCEPT !.fn = fn, !.out = v]
    /\ UNCHANGED <<board, game, script, ply, last, moved>>

FillLeftIncl == FillCall("fill_left_incl", fill_left_incl(utils.a))

FillLeftExcl == FillCall("fill_left_excl", fill_left_excl(utils.a))

FillRightIncl == FillCall("fill_right_incl", fill_right_incl(utils.a))

FillRightExcl == FillCall("fill_right_excl", fill_right_excl(utils.a))

OrthoRayBetweenIncl ==
    RayCall("ortho_ray_between_incl", ortho_ray_between_incl(utils.a, utils.b))

OrthoRayBetweenExcl ==
    RayCall("ortho_ray_between_excl", ortho_ray_between_excl(utils.a, utils.b))

DiagRayBetweenIncl ==
    RayCall("diag_ray_between_incl", diag_ray_between_incl(utils.a, utils.b))

DiagRayBetweenExcl ==
    RayCall("diag_ray_between_excl", diag_ray_between_excl(utils.a, utils.b))

UtilsNext ==
    \/ FillLeftIncl \/ FillLeftExcl \/ FillRightIncl \/ FillRightExcl
    \/ OrthoRayBetweenIncl \/ OrthoRayBetweenExcl
    \/ DiagRayBetweenIncl \/ DiagRayBetweenExcl

SpecUtils == InitUtils /\ [][UtilsNext]_vars

FillFunctions ==
    {"fill_left_incl", "fill_left_excl", "fill_right_incl", "fill_right_excl"}

\* C16: each of the four fill functions returns the all-ones mask when it is
\* given the zero mask.
FillOfZeroIsAllOnes ==
    (utils.fn \in FillFunctions /\ utils.a = {}) => utils.out = FILL

LowestBit(m) == CHOOSE i \in m : \A j \in m : i <= j

HighestBit(m) == CHOOSE i \in m : \A j \in m : j <= i

SameRankOrFile(a, b) == FileOf(a) = FileOf(b) \/ RankOf(a) = RankOf(b)

SameDiagonal(a, b) == Abs(FileOf(a) - FileOf(b)) = Abs(RankOf(a) - RankOf(b))

\* C18: for two single-bit masks a and b, ortho_ray_between_excl (on a common
\* rank or file) and diag_ray_between_excl (on a common diagonal) are exactly
\* the squares strictly between them, the _incl variants those squares plus a
\* and b, each is zero when a and b share no line of its kind, and the value
\* is the same with a and b exchanged.
RayBetweenIsTheSegment ==
    (utils.fn \notin FillFunctions \cup {"none"}) =>
        LET a == LowestBit(utils.a)
            b == LowestBit(utils.b)
            ortho == utils.fn \in {"ortho_ray_between_incl", "ortho_ray_between_excl"}
            incl == utils.fn \in {"ortho_ray_between_incl", "diag_ray_between_incl"}
            online == IF ortho THEN SameRankOrFile(a, b) ELSE SameDiagonal(a, b)
            swapped == CASE utils.fn = "ortho_ray_between_incl" ->
                                ortho_ray_between_incl(utils.b, utils.a)
                         [] utils.fn = "ortho_ray_between_excl" ->
                                ortho_ray_between_excl(utils.b, utils.a)
                         [] utils.fn = "diag_ray_between_incl" ->
                                diag_ray_between_incl(utils.b, utils.a)
                         [] OTHER ->
                                diag_ray_between_excl(utils.b, utils.a)
        IN  /\ Cardinality(utils.a) = 1 /\ Cardinality(utils.b) = 1
            /\ utils.out = IF ~online THEN {}
                           ELSE IF incl THEN RefBetween(a, b) \cup {a, b}
                           ELSE RefBetween(a, b)
            /\ utils.out = swapped

DiagRayDownward ==
    /\ utils.fn = "diag_ray_between_excl"
    /\ utils.a = {Sq(6, 6)}
    /\ utils.b = {Sq(3, 3)}
    /\ utils.out = {Sq(4, 4), Sq(5, 5)}

\* C19: every castling destination in the king's get_legal_moves is reached
\* over squares that are empty, by a king and toward a rook that play_move
\* never moved, and neither the square the king crosses nor the destination
\* is attacked by a piece of the opponent.
CastlingNotThroughOrIntoAttack ==
    /\ CastlingOnlyWithUnmovedKingAndRook
    /\ \A to \in CastlingOffers(board) :
          LET kpos == SquareOf(CurrTeam(board), KING)
          IN  /\ (RefBetween(kpos, to) \cup {to}) \cap Occupied(board) = {}
              /\ \A sq \in RefBetween(kpos, to) \cup {to} :
                    ~RefAttacked(board, Other(board.player),
                                 NonKingKinds \cup {"King"}, sq,
                                 Occupied(board) \ {kpos})

\* the last step was play_move of a king over two files
CastlingPlayed ==
    /\ last.op = "play"
    /\ last.id = KING
    /\ \E to \in last.mov :
          LET from == SquareOf(TeamOf(last.before, last.before.player), KING)
          IN  RankOf(to) = RankOf(from) /\ Abs(FileOf(to) - FileOf(from)) = 2

\* C20: after play_move of a king over two files, the rook the king castled
\* toward stands on the square the king crossed, and every other slot of the
\* mover (its other rook included) and every slot of the opponent has the
\* position it had before the move.
CastlingMovesOnlyItsRook ==
    CastlingPlayed =>
        LET mover == last.before.player
            was   == TeamOf(last.before, mover)
            now   == TeamOf(board, mover)
            from  == SquareOf(was, KING)
            to    == CHOOSE sq \in last.mov : TRUE
        IN  /\ now.positions[KING] = {to}
            /\ \E r \in {ROOK[1], ROOK[2]} :
                  /\ was.positions[r] # {}
                  /\ RankOf(SquareOf(was, r)) = RankOf(from)
                  /\ to \in RefBetween(from, SquareOf(was, r))
                  /\ now.positions[r] = RefBetween(from, to)
                  /\ \A i \in Slots \ {KING, r} : now.positions[i] = was.positions[i]
            /\ TeamOf(board, Other(mover)).positions
                  = TeamOf(last.before, Other(mover)).positions

\* C21: each side's en_passant_pos is zero, or a single bit on rank index 3
\* or 4 on which an unpromoted pawn of that side stands; for the side that
\* made the last move it is nonzero only if that move was a two-square
\* advance of an unpromoted pawn to that square, and the side that did not
\* move keeps the value it had.
EnPassantPosMarksFreshAdvance ==
    /\ \A player \in {"White", "Black"} :
          LET team == TeamOf(board, player)
              e    == team.en_passant_pos
          IN  e # {} =>
                 /\ Cardinality(e) = 1
                 /\ \A sq \in e : RankOf(sq) \in {3, 4}
                 /\ \E i \in PawnSlots :
                       team.promotions[i] = "None" /\ team.positions[i] = e
    /\ last.op = "play" =>
          LET mover == last.before.player
          IN  /\ TeamOf(board, mover).en_passant_pos # {} =>
                    /\ LastWasDoubleAdvance
                    /\ TeamOf(board, mover).en_passant_pos = last.mov
              /\ TeamOf(board, Other(mover)).en_passant_pos
                    = TeamOf(last.before, Other(mover)).en_passant_pos

\* the slot that holds an original piece of the kind
OriginalSlot(kind) ==
    CASE kind = "Rook" -> ROOK[1]
      [] kind = "Knight" -> KNIGHT[1]
      [] kind = "Bishop" -> BISHOP[1]
      [] OTHER -> QUEEN

\* the board with the positions of two slots of the side to move exchanged
SwapSlots(b, i, j) ==
    LET team == CurrTeam(b)
        swapped == [team EXCEPT !.positions[i] = team.positions[j],
                                !.positions[j] = team.positions[i]]
    IN  IF b.player = "White" THEN [b EXCEPT !.white = swapped]
        ELSE [b EXCEPT !.black = swapped]

\* the promoted pawn slots of a team
PromotedSlots(team) == { i \in PawnSlots : team.promotions[i] # "None" }

\* C22: for every live promoted pawn slot of the side to move get_legal_moves
\* returns, and returns what it returns for an original piece of the
\* replacement kind standing on that square in the same position; a promoted
\* slot keeps its replacement kind across every call, and a move of a
\* promoted slot raises no pending promotion.
PromotedPawnMovesAsItsKind ==
    /\ ~has_promotion(board) =>
          \A i \in PromotedSlots(CurrTeam(board)) \cap LiveSlots(CurrTeam(board)) :
              LET o == OriginalSlot(CurrTeam(board).promotions[i])
              IN  /\ ~get_legal_moves_panics(board, i)
                  /\ get_legal_moves(board, i)
                        = get_legal_moves(SwapSlots(board, i, o), o)
    /\ \A player \in {"White", "Black"} :
          \A i \in PromotedSlots(TeamOf(last.before, player)) :
              TeamOf(board, player).promotions[i]
                 = TeamOf(last.before, player).promotions[i]
    /\ ( /\ last.op = "play"
         /\ last.id \in PromotedSlots(CurrTeam(last.before)) )
       => /\ TeamOf(board, last.before.player).promotion_id = -1
          /\ board.player = Other(last.before.player)

\* the restriction mask get_legal_moves computes for a non-king slot of the
\* side to move
PinsOf(b, id) ==
    comp_pins(CurrTeam(b).positions[id], mask(CurrTeam(b)), mask(OppTeam(b)),
              OppTeam(b).positions, OppTeam(b).promotions,
              CurrTeam(b).positions[KING], b.player)

\* the opponent's promoted slot j is a line piece on a line of its kind
\* through the king of the side to move, and nothing but (possibly) the piece
\* of slot id stands between them
PromotedLineAttack(b, id, j) ==
    LET ksq  == SquareOf(CurrTeam(b), KING)
        psq  == SquareOf(OppTeam(b), j)
        kind == OppTeam(b).promotions[j]
    IN  /\ \/ kind \in {"Rook", "Queen"} /\ RefOrthoLine(ksq, psq)
           \/ kind \in {"Bishop", "Queen"} /\ RefDiagLine(ksq, psq)
        /\ RefBetween(ksq, psq) \cap Occupied(b) \subseteq CurrTeam(b).positions[id]

\* C23: when a promoted rook, bishop or queen of the opponent stands on a
\* line of its kind through the king of the side to move, with the line open
\* or holding only the piece in question, comp_pins for that piece returns a
\* mask inside the squares between king and promoted piece plus the promoted
\* piece's square, as it does for an original piece of that kind.
PromotedLinePiecePins ==
    \A id \in (Playable(board) \cap LiveSlots(CurrTeam(board))) \ {KING} :
        \A j \in PromotedSlots(OppTeam(board)) \cap LiveSlots(OppTeam(board)) :
            PromotedLineAttack(board, id, j) =>
                PinsOf(board, id)
                    \subseteq RefBetween(SquareOf(CurrTeam(board), KING),
                                         SquareOf(OppTeam(board), j))
                              \cup OppTeam(board).positions[j]

\* ------------------------------------------------------------------------
\* src/moves.rs and the generators of src/board.rs called on their own: one
\* table lookup, or one call of ortho_unrestr / diag_unrestr / pawn_unrestr
\* on a square and occupancy masks drawn from bounded sets
\* ------------------------------------------------------------------------

\* the pieces standing on the lines of a rook, bishop or queen
MaxBlockers == 2

\* the subsets of S with at most n elements
RECURSIVE SubsetsUpTo(_, _)
SubsetsUpTo(S, n) ==
    IF n = 0 THEN {{}}
    ELSE LET less == SubsetsUpTo(S, n - 1)
         IN  less \cup { m \cup {s} : m \in less, s \in S }

\* the unit steps of the rays: x is the file index, y the rank index; the
\* tables call growing x west and growing y north, the orientation in which
\* _print_bitboard prints a bitboard
Dir ==
    [ north |-> <<0, 1>>,  south |-> <<0, -1>>,
      west  |-> <<1, 0>>,  east  |-> <<-1, 0>>,
      north_west |-> <<1, 1>>,  north_east |-> <<-1, 1>>,
      south_west |-> <<1, -1>>, south_east |-> <<-1, -1>> ]

OrthoDirs == {"north", "south", "west", "east"}

DiagDirs == {"north_west", "north_east", "south_west", "south_east"}

\* the k-th square from sq in direction d is on the board
OnBoard(sq, d, k) ==
    /\ FileOf(sq) + k * d[1] \in 0..7
    /\ RankOf(sq) + k * d[2] \in 0..7

StepTo(sq, d, k) == Sq(FileOf(sq) + k * d[1], RankOf(sq) + k * d[2])

\* the squares from sq (excluded) to the board edge in direction d
RefRay(sq, d) == { StepTo(sq, d, k) : k \in { j \in 1..7 : OnBoard(sq, d, j) } }

\* the squares a line piece on sq reaches in direction d: every square before
\* the first occupied one, and that one too if an enemy piece stands on it
RefReach(sq, d, own, enemy) ==
    { StepTo(sq, d, k) :
        k \in { j \in 1..7 :
                  /\ OnBoard(sq, d, j)
                  /\ StepTo(sq, d, j) \notin own
                  /\ \A h \in 1..(j - 1) : StepTo(sq, d, h) \notin own \cup enemy } }

RefLines(sq, dirs) == UNION { RefRay(sq, Dir[n]) : n \in dirs }

\* the arguments of ortho_unrestr / diag_unrestr: a square and at most
\* MaxBlockers pieces, own or enemy, on the lines of that kind through it
SlideInputs(fn, dirs) ==
    \E sq \in FILL :
        \E blk \in SubsetsUpTo(RefLines(sq, dirs), MaxBlockers) :
            \E own \in SUBSET blk :
                utils = [fn |-> "none", for |-> fn, pos |-> {sq}, curr |-> own,
                         opp |-> blk \ own, player |-> "White", ep |-> {},
                         out |-> {}]

\* the rank step of a pawn of the player
Forward(player) == IF player = "White" THEN 1 ELSE -1

\* the squares at the given <<file step, rank step>> offsets from sq that are
\* on the board
Around(sq, offsets) ==
    { StepTo(sq, o, 1) : o \in { p \in offsets : OnBoard(sq, p, 1) } }

\* the arguments of pawn_unrestr: a square, the player, every way of leaving
\* empty or putting an own or an enemy piece on the two squares ahead and the
\* two forward diagonals, the squares behind and beside the pawn all empty or
\* all enemy, and an en_passant_pos that is zero, a square next to the pawn,
\* or a square elsewhere
PawnInputs ==
    \E sq \in FILL, pl \in {"White", "Black"} :
        LET fwd   == Forward(pl)
            ahead == Around(sq, { <<0, fwd>>, <<0, 2 * fwd>>, <<-1, fwd>>, <<1, fwd>> })
            rest  == Around(sq, { <<-1, 0>>, <<1, 0>>,
                                  <<-1, -fwd>>, <<0, -fwd>>, <<1, -fwd>> })
            beside == Around(sq, { <<-1, 0>>, <<1, 0>> })
        IN  \E c \in [ahead -> {"empty", "own", "enemy"}],
               back \in {{}, rest},
               e \in {{}} \cup { {s} : s \in beside } \cup { {(sq + 32) % 64} } :
                utils = [fn |-> "none", for |-> "pawn_unrestr", pos |-> {sq},
                         curr |-> { s \in ahead : c[s] = "own" },
                         opp |-> { s \in ahead : c[s] = "enemy" } \cup back,
                         player |-> pl, ep |-> e, out |-> {}]

TableNames ==
    { "king_moves", "knight_moves", "pawn_moves", "pawn_attacks" }
    \cup OrthoDirs \cup DiagDirs

\* the index of a table lookup
TableInputs ==
    \E i \in FILL :
        utils = [fn |-> "none", for |-> "table", pos |-> {i}, curr |-> {}, opp |-> {},
                 player |-> "White", ep |-> {}, out |-> {}]

InitMoves ==
    /\ board = NewBoard
    /\ black_positions = team_iter(NewBoard.black)
    /\ white_positions = team_iter(NewBoard.white)
    /\ state = "SelectPiece"
    /\ selected_pos = <<0, 0>>
    /\ selected_id = 0
    /\ selected_moves = {}
    /\ selected_list = <<>>
    /\ result = "none"
    /\ script = 0
    /\ ply = 0
    /\ last = NoCall
    /\ moved = [white |-> {}, black |-> {}]
    /\ \/ TableInputs
       \/ SlideInputs("ortho_unrestr", OrthoDirs)
       \/ SlideInputs("diag_unrestr", DiagDirs)
       \/ PawnInputs

\* the call of the function the arguments were drawn for, value v
MovesCall(fn, v) ==
    /\ utils.fn = "none"
    /\ utils.for = fn
    /\ utils' = [utils EXCEPT !.fn = fn, !.out = v]
    /\ UNCHANGED <<board, game, script, ply, last, moved>>

\* MOVES.<table>[i]
TableLookup ==
    \E name \in TableNames :
        /\ utils.fn = "none"
        /\ utils.for = "table"
        /\ utils' = [utils EXCEPT !.fn = name,
                                  !.out = lookup(MOVES[name], trailing_zeros(utils.pos))]
        /\ UNCHANGED <<board, game, script, ply, last, moved>>

OrthoUnrestr ==
    MovesCall("ortho_unrestr", ortho_unrestr(utils.pos, utils.curr, utils.opp))

DiagUnrestr ==
    MovesCall("diag_unrestr", diag_unrestr(utils.pos, utils.curr, utils.opp))

PawnUnrestr ==
    MovesCall("pawn_unrestr",
              pawn_unrestr(utils.pos, utils.curr, utils.opp, utils.player, utils.ep))

MovesNext == TableLookup \/ OrthoUnrestr \/ DiagUnrestr \/ PawnUnrestr

SpecMoves == InitMoves /\ [][MovesNext]_vars

\* C24: on disjoint own and enemy masks, the destinations of ortho_unrestr
\* (diag_unrestr) lie on the four orthogonal (diagonal) rays from the piece,
\* and along each ray they are exactly the squares from the piece outward up
\* to but excluding the first own piece, or up to and including the first
\* enemy piece, whichever is nearer: the whole ray when nothing stands on it.
SlidersStopAtFirstPiece ==
    utils.fn \in {"ortho_unrestr", "diag_unrestr"} =>
        LET dirs == IF utils.fn = "ortho_unrestr" THEN OrthoDirs ELSE DiagDirs
            sq   == LowestBit(utils.pos)
        IN  /\ utils.curr \cap utils.opp = {}
            /\ utils.out \subseteq RefLines(sq, dirs)
            /\ \A n \in dirs :
                  utils.out \cap RefRay(sq, Dir[n])
                     = RefReach(sq, Dir[n], utils.curr, utils.opp)

\* a rook on d4 with an own piece on d6 and an enemy piece on d5 and nothing
\* else on its lines
RookFacingEnemyThenOwn ==
    /\ utils.fn = "ortho_unrestr"
    /\ utils.pos = {Sq(3, 3)}
    /\ utils.curr = {Sq(3, 5)}
    /\ utils.opp = {Sq(3, 4)}
    /\ Sq(3, 4) \in utils.out
    /\ Sq(3, 5) \notin utils.out
    /\ Sq(3, 0) \in utils.out

\* the destinations the rules give an unpromoted pawn
RefPawnMoves(sq, player, own, enemy, ep) ==
    LET fwd  == Forward(player)
        home == IF player = "White" THEN 1 ELSE 6
        one  == Around(sq, { <<0, fwd>> })
        two  == Around(sq, { <<0, 2 * fwd>> })
        diag == Around(sq, { <<-1, fwd>>, <<1, fwd>> })
        occ  == own \cup enemy
    IN  { s \in one : s \notin occ }
        \cup { s \in two : RankOf(sq) = home /\ (one \cup two) \cap occ = {} }
        \cup { s \in diag : s \in enemy }
        \cup { s \in diag : s \notin own /\ ep = {Sq(FileOf(s), RankOf(sq))} }

\* C25: the destinations of pawn_unrestr are exactly the square one step
\* ahead if it is empty, the square two steps ahead if the pawn stands on its
\* home rank and both squares ahead are empty, each forward diagonal holding
\* an enemy piece, and each forward diagonal not holding an own piece whose
\* neighbour beside the pawn is the opponent's en_passant_pos; none of them
\* lies behind the pawn or across the board edge.
PawnMovesAreTheRules ==
    utils.fn = "pawn_unrestr" =>
        LET sq == LowestBit(utils.pos)
        IN  /\ utils.out = RefPawnMoves(sq, utils.player, utils.curr, utils.opp, utils.ep)
            /\ \A s \in utils.out :
                  /\ (RankOf(s) - RankOf(sq)) * Forward(utils.player) \in {1, 2}
                  /\ Abs(FileOf(s) - FileOf(sq)) <= 1

\* a black pawn on the h-file takes en passant toward the g-file
EnPassantAtTheEdge ==
    /\ utils.fn = "pawn_unrestr"
    /\ utils.player = "Black"
    /\ utils.pos = {Sq(7, 3)}
    /\ utils.ep = {Sq(6, 3)}
    /\ Sq(6, 2) \notin utils.curr \cup utils.opp
    /\ utils.out \cap {Sq(6, 2)} # {}

\* C26: for every square index the tables equal their geometric definition:
\* king_moves the neighbouring squares, knight_moves the knight jumps,
\* pawn_moves and pawn_attacks the squares one rank up and one rank down
\* (straight / diagonal), each direction table the squares from the square to
\* the board edge in its direction, all on the board and without wrap-around.
TablesAreGeometric ==
    utils.fn \in TableNames =>
        LET i == LowestBit(utils.pos)
            dx(s) == Abs(FileOf(s) - FileOf(i))
            dy(s) == Abs(RankOf(s) - RankOf(i))
        IN  /\ utils.out \subseteq FILL
            /\ utils.out =
                 CASE utils.fn = "king_moves" ->
                        { s \in FILL : s # i /\ dx(s) <= 1 /\ dy(s) <= 1 }
                   [] utils.fn = "knight_moves" ->
                        { s \in FILL : {dx(s), dy(s)} = {1, 2} }
                   [] utils.fn = "pawn_moves" ->
                        { s \in FILL : dx(s) = 0 /\ dy(s) = 1 }
                   [] utils.fn = "pawn_attacks" ->
                        { s \in FILL : dx(s) = 1 /\ dy(s) = 1 }
                   [] OTHER -> RefRay(i, Dir[utils.fn])

\* the north_east ray of the corner square 7 (file 7, rank 0)
CornerDiagonal ==
    /\ utils.fn = "north_east"
    /\ utils.pos = {7}
    /\ utils.out = {14, 21, 28, 35, 42, 49, 56}

\* ------------------------------------------------------------------------
\* Captures
\* ------------------------------------------------------------------------

\* the slots of the side that did not move which the play_move recorded in l
\* emptied, `after` being the board it left
Removed(l, after) ==
    { i \in Slots :
        /\ OppTeam(l.before).positions[i] # {}
        /\ TeamOf(after, Other(l.before.player)).positions[i] = {} }

\* no square holds a piece of each side
NoSharedSquare == mask(board.white) \cap mask(board.black) = {}

\* the opponent piece that stood on the destination of the last play_move is
\* gone
DestinationCleared ==
    last.op = "play" =>
        \A i \in Slots :
            OppTeam(last.before).positions[i] = last.mov
                => TeamOf(board, Other(last.before.player)).positions[i] = {}

\* a play_move that removes a piece standing off its destination follows
\* directly on the double advance of that piece and goes to an empty square
RemovedElsewhereIsEnPassant ==
    last'.op = "play" =>
        \A i \in Removed(last', board') :
            OppTeam(board).positions[i] # last'.mov =>
                /\ LastWasDoubleAdvance
                /\ last.mov = OppTeam(board).positions[i]
                /\ last'.mov \cap Occupied(board) = {}

\* C27: no square is ever occupied by pieces of both sides; play_move empties
\* the opponent slot that stood on its destination; a piece removed from any
\* other square is the pawn that double-advanced on the move just before, and
\* the destination was then empty.
CapturesClearTheSquare ==
    /\ []NoSharedSquare
    /\ []DestinationCleared
    /\ [][RemovedElsewhereIsEnPassant]_vars

\* ------------------------------------------------------------------------
\* Turns through Game
\* ------------------------------------------------------------------------

\* a select_move that executed a board move hands the turn to the other colour
ExecutedMovePassesTheTurn ==
    last'.op = "play" => get_current_player' = Other(get_current_player)

\* a call that executes no board move leaves the colour to move as it is
OtherCallsKeepTheTurn ==
    last'.op \in {"select_piece", "select_move"}
        => get_current_player' = get_current_player

\* C28: through select_piece / select_move the colour that executes a board
\* move strictly alternates: a select_move that executes a move leaves the
\* other colour to move, and no other call changes the colour to move, so the
\* next executed move is the other colour's; this includes the move of a pawn
\* onto the far rank.
ColoursAlternate ==
    [][ExecutedMovePassesTheTurn /\ OtherCallsKeepTheTurn]_vars

\* ------------------------------------------------------------------------
\* Panics
\* ------------------------------------------------------------------------

\* C29: in every state reached by legal moves and promotions to any of Rook,
\* Knight, Bishop, Queen, get_legal_moves of every live slot of the side to
\* move and is_checkmate run to completion: no table is indexed with 64 and
\* no panic!() arm is taken.
MoveGenerationNeverPanics ==
    /\ \A id \in Slots :
          CurrTeam(board).positions[id] # {} => ~get_legal_moves_panics(board, id)
    /\ ~is_checkmate_panics(board)

====
